---- MODULE Spec2Model ----
(***************************************************************************)
(* A model of the crawl-control core of spacetime-crawler4py:              *)
(*   crawler/frontier.py  - the persistent, lock-protected URL Frontier    *)
(*   scraper.py           - the page admission pipeline (politeness gate, *)
(*                          duplicate detector, statistics)                *)
(* Threads are modelled as processes with a program counter; every step    *)
(* between two points where another thread can observe shared state is one *)
(* action.                                                                 *)
(***************************************************************************)
EXTENDS Integers, Sequences, FiniteSets, TLC

(***************************************************************************)
(* Bounds of the model.                                                    *)
(***************************************************************************)
\* calls the workers may make to the Frontier, over all runs
MaxOps == 3
\* process runs (the first start plus restarts after a stop)
MaxRuns == 2
\* calls of scraper() the workers may make
MaxScrapes == 2
\* the clock stops at this time
MaxTime == 2

(***************************************************************************)
(* URLs.  A URL is a record of its parsed components, as urlparse gives    *)
(* them: scheme://host[:port]/path[.ext][/][#frag].  host is the sequence  *)
(* of its dot-separated labels, path the sequence of its segments (the     *)
(* last one without its extension), port 0 when none is written.           *)
(***************************************************************************)
MkUrl(s, h, pt, p, e, sl, f) ==
    [scheme |-> s, host |-> h, port |-> pt, path |-> p, ext |-> e,
     slash |-> sl, frag |-> f]

IcsHost  == <<"www", "ics", "uci", "edu">>
StatHost == <<"WWW", "stat", "uci", "edu">>

\* https://www.ics.uci.edu/a
UrlA      == MkUrl("https", IcsHost, 0, <<"a">>, "", FALSE, "")
\* https://www.ics.uci.edu/a/
UrlASlash == MkUrl("https", IcsHost, 0, <<"a">>, "", TRUE, "")
\* https://www.ics.uci.edu/a#top
UrlAFrag  == MkUrl("https", IcsHost, 0, <<"a">>, "", FALSE, "top")
\* https://www.ics.uci.edu/b.pdf
UrlPdf    == MkUrl("https", IcsHost, 0, <<"b">>, "pdf", FALSE, "")
\* http://WWW.stat.uci.edu:80/
UrlRoot   == MkUrl("http", StatHost, 80, <<>>, "", TRUE, "")

\* config.seed_urls
SeedUrls == <<UrlRoot, UrlA>>
\* the URLs workers pass to add_url
AddUrls == {UrlASlash, UrlAFrag, UrlPdf}
\* the URLs a worker may pass to mark_url_* without having been handed them
StrayUrls == {UrlASlash, UrlPdf}

Lower(s) ==
    CASE s = "WWW" -> "www"
      [] s = "HTTP" -> "http"
      [] s = "HTTPS" -> "https"
      [] OTHER -> s

LowerSeq(q) == [i \in DOMAIN q |-> Lower(q[i])]

DefaultPort(s) ==
    CASE s = "http" -> 80
      [] s = "https" -> 443
      [] OTHER -> 0

\* utils.normalize: scheme and host lowercased, default port stripped,
\* fragment removed, trailing slash stripped.
normalize(u) ==
    LET s == Lower(u.scheme)
    IN  [u EXCEPT !.scheme = s,
                  !.host = LowerSeq(u.host),
                  !.port = IF u.port = DefaultPort(s) THEN 0 ELSE u.port,
                  !.slash = FALSE,
                  !.frag = ""]

\* utils.get_urlhash: a stable hash of the URL string; distinct strings have
\* distinct hashes.
get_urlhash(u) ==
    <<"sha256", u.scheme, u.host, u.port, u.path, u.ext, u.slash, u.frag>>

Range(q) == {q[i] : i \in DOMAIN q}

\* every URL the model handles, raw or normalized
AllUrls ==
    LET raw == AddUrls \cup StrayUrls \cup Range(SeedUrls)
    IN  raw \cup {normalize(u) : u \in raw}

(***************************************************************************)
(* Processes: the main thread, which constructs the Frontier, and the      *)
(* worker threads.                                                         *)
(***************************************************************************)
Main == "main"
Workers == {"w1", "w2"}
\* the three worker threads get_tbd_url counts on (lines 23 and 72)
Crawlers == Workers \cup {"w3"}
Procs == Crawlers \cup {Main}

NoOwner == "none"
NoUrl == MkUrl("None", <<>>, 0, <<>>, "", FALSE, "")
NoResp == "None"
EmptyMap == [h \in {} |-> 0]

\* d[k] = v, as a Python dict assignment
Put(d, k, v) == [h \in DOMAIN d \cup {k} |-> IF h = k THEN v ELSE d[h]]

\* a URL record of the Frontier: the tuple (url, visited)
Rec(u, v) == [url |-> u, visited |-> v]

VARIABLES
    \* Frontier fields
    url_map,            \* self.url_map: urlhash -> (url, visited)
    save,               \* self.save: the open shelve, written but maybe unflushed
    disk,               \* the save file's flushed content
    fileExists,         \* os.path.exists(config.save_file)
    to_be_downloaded,   \* self.to_be_downloaded: the FIFO queue
    lock,               \* self.lock: the owner of the RLock
    workers,            \* self.workers: the idle-worker counter
    crawled_urls,       \* self.crawled_urls
    unique_pages,       \* self.unique_pages
    uci_subdomains,     \* self.uci_subdomains
    domain_count,       \* self.domain_count
    \* scraper.py globals
    visited_hashes,     \* content hashes of the pages seen
    visited_texts,      \* the word counters of the admitted pages
    all_words,          \* word -> frequency over the admitted pages
    ICS_subdomains,     \* netloc -> admitted pages of that ICS subdomain
    robot_parsers,      \* netloc -> parsed robots.txt
    crawl_delays,       \* netloc -> crawl delay
    largest,            \* _largestPageWordCount: (url, count)
    \* locals of a scraper() call
    resp,               \* the response a thread is processing
    wake,               \* when a thread's time.sleep ends
    links,              \* the list of links a thread has built
    parser,             \* the RobotFileParser a thread has read
    \* time and the history of the scraper
    now,                \* the clock
    nscrapes,           \* scraper() calls made so far
    robots_reads,       \* netloc -> robots.txt retrievals started
    lastPass,           \* netloc -> when a page of it last left obey_crawl_delay
    passedExact,        \* checksum -> pages that got past the exact-duplicate check
    \* threads
    pc,                 \* where each thread is
    arg,                \* the url argument of the call a thread is in
    tmp,                \* a thread's local copy of a counter it is updating
    restart,            \* the restart argument of Frontier.__init__
    seedIdx,            \* position of __init__'s loop over config.seed_urls
    \* output
    summaries,          \* calls of print_summary
    finals,             \* calls of print_final_summary
    \* history
    run,                \* process runs so far
    nops,               \* Frontier calls made by the workers so far
    held,               \* the URLs get_tbd_url has returned to each worker
    nget,               \* url -> times get_tbd_url returned it in this run
    nput,               \* url -> times it was put on the queue in this run
    nins,               \* urlhash -> times add_url inserted it in this run
    added,              \* URLs add_url inserted into the current store
    marked,             \* hashes mark_url_* marked in the current store
    disciplined,        \* workers marked only URLs they were handed
    store0              \* the save file's content when this run started

fvars == <<url_map, save, disk, fileExists, to_be_downloaded, lock, workers,
           crawled_urls, unique_pages, uci_subdomains, domain_count>>
tvars == <<pc, arg, tmp, restart, seedIdx>>
ovars == <<summaries, finals>>
hvars == <<run, nops, held, nget, nput, nins, added, marked, disciplined, store0>>
sglobals == <<visited_hashes, visited_texts, all_words, ICS_subdomains,
              robot_parsers, crawl_delays, largest>>
slocals == <<resp, wake, links, parser>>
shist == <<now, nscrapes, robots_reads, lastPass, passedExact>>
svars == <<sglobals, slocals, shist>>
vars == <<fvars, tvars, ovars, hvars, svars>>

(***************************************************************************)
(* scraper.is_valid                                                        *)
(***************************************************************************)
USER_AGENT == "crawler"

\* parsed.netloc: the host as written, with the port when one is written
netloc(u) == <<u.host, u.port>>

IsSuffix(suf, q) ==
    /\ Len(q) >= Len(suf)
    /\ \A i \in 1..Len(suf) : q[Len(q) - Len(suf) + i] = suf[i]

\* domain.endswith("." + name): a port, when written, ends the netloc instead
EndsWithDomain(u, name) ==
    /\ u.port = 0
    /\ Len(u.host) > Len(name)
    /\ IsSuffix(name, LowerSeq(u.host))

\* the labels a string ending in "today" can be
EndsInToday == {"today", "nottoday"}

\* "today.uci.edu" in domain: a substring test, anywhere in the netloc
ContainsToday(u) ==
    LET h == LowerSeq(u.host)
    IN  \E i \in 1..Len(h) :
            /\ i + 2 <= Len(h)
            /\ h[i] \in EndsInToday
            /\ h[i + 1] = "uci"
            /\ h[i + 2] = "edu"

\* "/department/information_computer_sciences" in path
ContainsDept(u) ==
    \E i \in 1..Len(u.path) :
        /\ i + 1 <= Len(u.path)
        /\ Lower(u.path[i]) = "department"
        /\ Lower(u.path[i + 1]) = "information_computer_sciences"

BannedExt ==
    {"css", "js", "bmp", "gif", "jpg", "jpeg", "ico", "png", "tif", "tiff",
     "mp2", "mp3", "mp4", "avi", "mov", "pdf", "doc", "docx", "xls", "xlsx",
     "ppt", "pptx", "zip", "rar", "gz", "exe", "tar"}

\* re.search(r"\.(css|js|...)$", path): the path ends in a banned extension
HasBannedExt(u) == ~u.slash /\ Lower(u.ext) \in BannedExt

\* RobotFileParser.can_fetch(USER_AGENT, url): nothing may be fetched under a
\* parser that denies everything, or else what its rules do not deny
can_fetch(rp, u) == ~rp.denyAll /\ u.path \notin rp.deny

is_valid(u) ==
    /\ u.scheme \in {"http", "https"}
    /\ \/ EndsWithDomain(u, <<"ics", "uci", "edu">>)
       \/ EndsWithDomain(u, <<"cs", "uci", "edu">>)
       \/ EndsWithDomain(u, <<"informatics", "uci", "edu">>)
       \/ EndsWithDomain(u, <<"stat", "uci", "edu">>)
       \/ (ContainsToday(u) /\ ContainsDept(u))
    /\ ~HasBannedExt(u)
    /\ ~(netloc(u) \in DOMAIN robot_parsers
         /\ ~can_fetch(robot_parsers[netloc(u)], u))

(***************************************************************************)
(* The state after the process starts, before Frontier.__init__ runs.      *)
(***************************************************************************)
ProcessStart(r) ==
    /\ url_map = EmptyMap
    /\ save = EmptyMap
    /\ to_be_downloaded = <<>>
    /\ lock = NoOwner
    /\ workers = 0
    /\ crawled_urls = 0
    /\ unique_pages = {}
    /\ uci_subdomains = {}
    /\ domain_count = EmptyMap
    /\ visited_hashes = {}
    /\ visited_texts = <<>>
    /\ all_words = EmptyMap
    /\ ICS_subdomains = EmptyMap
    /\ robot_parsers = EmptyMap
    /\ crawl_delays = EmptyMap
    /\ largest = [url |-> "", count |-> 0]
    /\ resp = [p \in Procs |-> NoResp]
    /\ wake = [p \in Procs |-> 0]
    /\ links = [p \in Procs |-> <<>>]
    /\ parser = [p \in Procs |-> NoResp]
    /\ robots_reads = EmptyMap
    /\ lastPass = EmptyMap
    /\ passedExact = EmptyMap
    /\ pc = [p \in Procs |-> IF p = Main THEN "init" ELSE "idle"]
    /\ arg = [p \in Procs |-> NoUrl]
    /\ tmp = [p \in Procs |-> 0]
    /\ restart = r
    /\ seedIdx = 1
    /\ summaries = 0
    /\ finals = 0
    /\ held = [p \in Procs |-> {}]
    /\ nget = [u \in AllUrls |-> 0]
    /\ nput = [u \in AllUrls |-> 0]
    /\ nins = EmptyMap

Init ==
    /\ \E r \in BOOLEAN : ProcessStart(r)
    /\ disk = EmptyMap
    /\ fileExists = FALSE
    /\ run = 1
    /\ nops = 0
    /\ now = 0
    /\ nscrapes = 0
    /\ added = {}
    /\ marked = {}
    /\ disciplined = TRUE
    /\ store0 = EmptyMap

(***************************************************************************)
(* Frontier.__init__                                                       *)
(***************************************************************************)
\* lines 31-39: a restart deletes an existing save file
InitCheckFile ==
    /\ pc[Main] = "init"
    /\ IF fileExists /\ restart
          THEN /\ disk' = EmptyMap
               /\ fileExists' = FALSE
               /\ added' = {}
               /\ marked' = {}
          ELSE UNCHANGED <<disk, fileExists, added, marked>>
    /\ pc' = [pc EXCEPT ![Main] = "open"]
    /\ UNCHANGED <<url_map, save, to_be_downloaded, lock, workers, crawled_urls,
                   unique_pages, uci_subdomains, domain_count>>
    /\ UNCHANGED <<arg, tmp, restart, seedIdx>>
    /\ UNCHANGED <<run, nops, held, nget, nput, nins, disciplined, store0>>
    /\ UNCHANGED <<ovars, svars>>

\* lines 41-47: shelve.open loads the save file, or creates it
InitOpen ==
    /\ pc[Main] = "open"
    /\ save' = disk
    /\ fileExists' = TRUE
    /\ pc' = [pc EXCEPT ![Main] = IF restart THEN "seed" ELSE "parse"]
    /\ UNCHANGED <<url_map, disk, to_be_downloaded, lock, workers, crawled_urls,
                   unique_pages, uci_subdomains, domain_count>>
    /\ UNCHANGED <<arg, tmp, restart, seedIdx>>
    /\ UNCHANGED <<ovars, hvars, svars>>

\* the orders in which a loop can visit the keys of a shelve
Orders(S) ==
    {q \in [1..Cardinality(S) -> S] : \A i, j \in DOMAIN q : q[i] = q[j] => i = j}

\* _parse_save_file re-enqueuing every valid record, visited or not
ParseEnqueuesVisited(h) == is_valid(save[h].url)

\* _parse_save_file re-enqueuing every unvisited record, in scope or not
ParseEnqueuesInvalid(h) == ~save[h].visited

\* the url of record h when _parse_save_file puts it on the queue
ParseEnqueues(h) == ~save[h].visited /\ is_valid(save[h].url)

RECURSIVE ParsePuts(_)
\* the urls _parse_save_file puts, visiting the keys in the order ord
ParsePuts(ord) ==
    IF ord = <<>> THEN <<>>
    ELSE (IF ParseEnqueues(Head(ord)) THEN <<save[Head(ord)].url>> ELSE <<>>)
         \o ParsePuts(Tail(ord))

\* _parse_save_file, under the lock from its first record to its last
ParseSaveFile ==
    /\ pc[Main] = "parse"
    /\ lock = NoOwner
    /\ \E ord \in Orders(DOMAIN save) :
          LET puts == ParsePuts(ord)
          IN  /\ to_be_downloaded' = to_be_downloaded \o puts
              /\ nput' = [u \in AllUrls |->
                            nput[u] + Cardinality({i \in DOMAIN puts : puts[i] = u})]
    /\ url_map' = [h \in DOMAIN url_map \cup DOMAIN save |->
                     IF h \in DOMAIN save THEN save[h] ELSE url_map[h]]
    /\ pc' = [pc EXCEPT ![Main] = "fallback"]
    /\ UNCHANGED <<save, disk, fileExists, lock, workers, crawled_urls,
                   unique_pages, uci_subdomains, domain_count>>
    /\ UNCHANGED <<arg, tmp, restart, seedIdx>>
    /\ UNCHANGED <<run, nops, held, nget, nins, added, marked, disciplined, store0>>
    /\ UNCHANGED <<ovars, svars>>

\* __init__ seeding after every replay, without the test of line 48
InitFallbackAlways ==
    /\ pc[Main] = "fallback"
    /\ pc' = [pc EXCEPT ![Main] = "seed"]
    /\ UNCHANGED <<fvars, arg, tmp, restart, seedIdx, ovars, hvars, svars>>

\* line 48: "if not self.save" - an empty save file falls back to the seeds
InitFallback ==
    /\ pc[Main] = "fallback"
    /\ pc' = [pc EXCEPT ![Main] = IF DOMAIN save = {} THEN "seed" ELSE "done"]
    /\ UNCHANGED <<fvars, arg, tmp, restart, seedIdx, ovars, hvars, svars>>

\* lines 43-44 and 49-50: for url in self.config.seed_urls: self.add_url(url)
InitSeed ==
    /\ pc[Main] = "seed"
    /\ IF seedIdx <= Len(SeedUrls)
          THEN /\ arg' = [arg EXCEPT ![Main] = normalize(SeedUrls[seedIdx])]
               /\ seedIdx' = seedIdx + 1
               /\ pc' = [pc EXCEPT ![Main] = "add_lock"]
          ELSE /\ pc' = [pc EXCEPT ![Main] = "done"]
               /\ UNCHANGED <<arg, seedIdx>>
    /\ UNCHANGED <<fvars, tmp, restart, ovars, hvars, svars>>

\* where a thread continues when a Frontier call returns
Return(p) == IF p = Main THEN "seed" ELSE "idle"

(***************************************************************************)
(* Frontier.add_url                                                        *)
(***************************************************************************)
\* lines 76-78: a worker calls add_url(u); url = normalize(url)
AddUrlCall(w, u) ==
    /\ pc[Main] = "done"
    /\ pc[w] = "idle"
    /\ nops < MaxOps
    /\ nops' = nops + 1
    /\ arg' = [arg EXCEPT ![w] = normalize(u)]
    /\ pc' = [pc EXCEPT ![w] = "add_lock"]
    /\ UNCHANGED <<fvars, tmp, restart, seedIdx, ovars, svars>>
    /\ UNCHANGED <<run, held, nget, nput, nins, added, marked, disciplined, store0>>

\* add_url testing the mapping without taking the lock
AddUrlCheckNoLock(p) ==
    /\ pc[p] = "add_lock"
    /\ pc' = [pc EXCEPT ![p] = IF get_urlhash(arg[p]) \notin DOMAIN url_map
                                  THEN "add_map" ELSE "add_unlock"]
    /\ UNCHANGED <<fvars, arg, tmp, restart, seedIdx, ovars, hvars, svars>>

\* add_url inserting without the test of line 80
AddUrlCheckAlways(p) ==
    /\ pc[p] = "add_lock"
    /\ lock = NoOwner
    /\ lock' = p
    /\ pc' = [pc EXCEPT ![p] = "add_map"]
    /\ UNCHANGED <<url_map, save, disk, fileExists, to_be_downloaded, workers,
                   crawled_urls, unique_pages, uci_subdomains, domain_count>>
    /\ UNCHANGED <<arg, tmp, restart, seedIdx>>
    /\ UNCHANGED <<ovars, hvars, svars>>

\* lines 79-80: with self.lock: if urlhash not in self.url_map
AddUrlCheck(p) ==
    /\ pc[p] = "add_lock"
    /\ lock = NoOwner
    /\ lock' = p
    /\ pc' = [pc EXCEPT ![p] = IF get_urlhash(arg[p]) \notin DOMAIN url_map
                                  THEN "add_map" ELSE "add_unlock"]
    /\ UNCHANGED <<url_map, save, disk, fileExists, to_be_downloaded, workers,
                   crawled_urls, unique_pages, uci_subdomains, domain_count>>
    /\ UNCHANGED <<arg, tmp, restart, seedIdx>>
    /\ UNCHANGED <<ovars, hvars, svars>>

\* line 81: self.url_map[urlhash] = (url, False)
AddUrlMap(p) ==
    /\ pc[p] = "add_map"
    /\ url_map' = Put(url_map, get_urlhash(arg[p]), Rec(arg[p], FALSE))
    /\ nins' = Put(nins, get_urlhash(arg[p]),
                   IF get_urlhash(arg[p]) \in DOMAIN nins
                      THEN nins[get_urlhash(arg[p])] + 1 ELSE 1)
    /\ added' = added \cup {arg[p]}
    /\ pc' = [pc EXCEPT ![p] = "add_save"]
    /\ UNCHANGED <<save, disk, fileExists, to_be_downloaded, lock, workers,
                   crawled_urls, unique_pages, uci_subdomains, domain_count>>
    /\ UNCHANGED <<arg, tmp, restart, seedIdx>>
    /\ UNCHANGED <<run, nops, held, nget, nput, marked, disciplined, store0>>
    /\ UNCHANGED <<ovars, svars>>

\* line 82: self.save[urlhash] = (url, False)
AddUrlSave(p) ==
    /\ pc[p] = "add_save"
    /\ save' = Put(save, get_urlhash(arg[p]), Rec(arg[p], FALSE))
    /\ pc' = [pc EXCEPT ![p] = "add_sync"]
    /\ UNCHANGED <<url_map, disk, fileExists, to_be_downloaded, lock, workers,
                   crawled_urls, unique_pages, uci_subdomains, domain_count>>
    /\ UNCHANGED <<arg, tmp, restart, seedIdx>>
    /\ UNCHANGED <<ovars, hvars, svars>>

\* line 83: self.save.sync()
AddUrlSync(p) ==
    /\ pc[p] = "add_sync"
    /\ disk' = save
    /\ pc' = [pc EXCEPT ![p] = "add_put"]
    /\ UNCHANGED <<url_map, save, fileExists, to_be_downloaded, lock, workers,
                   crawled_urls, unique_pages, uci_subdomains, domain_count>>
    /\ UNCHANGED <<arg, tmp, restart, seedIdx>>
    /\ UNCHANGED <<ovars, hvars, svars>>

\* line 84: self.to_be_downloaded.put(url)
AddUrlPut(p) ==
    /\ pc[p] = "add_put"
    /\ to_be_downloaded' = Append(to_be_downloaded, arg[p])
    /\ nput' = [nput EXCEPT ![arg[p]] = @ + 1]
    /\ pc' = [pc EXCEPT ![p] = "add_unlock"]
    /\ UNCHANGED <<url_map, save, disk, fileExists, lock, workers,
                   crawled_urls, unique_pages, uci_subdomains, domain_count>>
    /\ UNCHANGED <<arg, tmp, restart, seedIdx>>
    /\ UNCHANGED <<run, nops, held, nget, nins, added, marked, disciplined, store0>>
    /\ UNCHANGED <<ovars, svars>>

\* the end of the with block: the lock is released and add_url returns
AddUrlReturn(p) ==
    /\ pc[p] = "add_unlock"
    /\ lock' = IF lock = p THEN NoOwner ELSE lock
    /\ pc' = [pc EXCEPT ![p] = Return(p)]
    /\ UNCHANGED <<url_map, save, disk, fileExists, to_be_downloaded, workers,
                   crawled_urls, unique_pages, uci_subdomains, domain_count>>
    /\ arg' = [arg EXCEPT ![p] = NoUrl]
    /\ UNCHANGED <<tmp, restart, seedIdx>>
    /\ UNCHANGED <<ovars, hvars, svars>>

(***************************************************************************)
(* Frontier.get_tbd_url                                                    *)
(***************************************************************************)
\* the idle workers at which get_tbd_url prints the final summary (line 72)
IdleWorkersForSummary == 3
\* the completions between two periodic summaries (line 88)
SummaryEvery == 25

\* line 66: a worker calls get_tbd_url()
GetTbdUrlCall(w) ==
    /\ pc[Main] = "done"
    /\ pc[w] = "idle"
    /\ nops < MaxOps
    /\ nops' = nops + 1
    /\ pc' = [pc EXCEPT ![w] = "get_lock"]
    /\ UNCHANGED <<fvars, arg, tmp, restart, seedIdx, ovars, svars>>
    /\ UNCHANGED <<run, held, nget, nput, nins, added, marked, disciplined, store0>>

\* get_tbd_url reading the head of the queue without removing it
GetTbdUrlPeek(w) ==
    /\ pc[w] = "get_lock"
    /\ lock = NoOwner
    /\ IF to_be_downloaded # <<>>
          THEN /\ arg' = [arg EXCEPT ![w] = Head(to_be_downloaded)]
               /\ nget' = [nget EXCEPT ![Head(to_be_downloaded)] = @ + 1]
               /\ lock' = w
               /\ pc' = [pc EXCEPT ![w] = "get_unlock"]
          ELSE /\ pc' = [pc EXCEPT ![w] = "get_except"]
               /\ UNCHANGED <<arg, nget, lock>>
    /\ UNCHANGED <<url_map, save, disk, fileExists, to_be_downloaded, workers,
                   crawled_urls, unique_pages, uci_subdomains, domain_count>>
    /\ UNCHANGED <<tmp, restart, seedIdx>>
    /\ UNCHANGED <<run, nops, held, nput, nins, added, marked, disciplined, store0>>
    /\ UNCHANGED <<ovars, svars>>

\* lines 68-69: with self.lock: self.to_be_downloaded.get_nowait();
\* on an empty queue get_nowait raises Empty, which leaves the with block
GetTbdUrl(w) ==
    /\ pc[w] = "get_lock"
    /\ lock = NoOwner
    /\ IF to_be_downloaded # <<>>
          THEN /\ to_be_downloaded' = Tail(to_be_downloaded)
               /\ arg' = [arg EXCEPT ![w] = Head(to_be_downloaded)]
               /\ nget' = [nget EXCEPT ![Head(to_be_downloaded)] = @ + 1]
               /\ lock' = w
               /\ pc' = [pc EXCEPT ![w] = "get_unlock"]
          ELSE /\ pc' = [pc EXCEPT ![w] = "get_except"]
               /\ UNCHANGED <<to_be_downloaded, arg, nget, lock>>
    /\ UNCHANGED <<url_map, save, disk, fileExists, workers,
                   crawled_urls, unique_pages, uci_subdomains, domain_count>>
    /\ UNCHANGED <<tmp, restart, seedIdx>>
    /\ UNCHANGED <<run, nops, held, nput, nins, added, marked, disciplined, store0>>
    /\ UNCHANGED <<ovars, svars>>

\* line 69: the return leaves the with block; the caller has the url arg[w]
GetTbdUrlReturn(w) ==
    /\ pc[w] = "get_unlock"
    /\ held' = [held EXCEPT ![w] = @ \cup {arg[w]}]
    /\ lock' = IF lock = w THEN NoOwner ELSE lock
    /\ arg' = [arg EXCEPT ![w] = NoUrl]
    /\ pc' = [pc EXCEPT ![w] = "idle"]
    /\ UNCHANGED <<url_map, save, disk, fileExists, to_be_downloaded, workers,
                   crawled_urls, unique_pages, uci_subdomains, domain_count>>
    /\ UNCHANGED <<tmp, restart, seedIdx>>
    /\ UNCHANGED <<run, nops, nget, nput, nins, added, marked, disciplined, store0>>
    /\ UNCHANGED <<ovars, svars>>

\* line 71, first half of "self.workers += 1": the counter is read
GetTbdUrlIdleRead(w) ==
    /\ pc[w] = "get_except"
    /\ tmp' = [tmp EXCEPT ![w] = workers]
    /\ pc' = [pc EXCEPT ![w] = "get_inc"]
    /\ UNCHANGED <<fvars, arg, restart, seedIdx, ovars, hvars, svars>>

\* line 71, second half: the incremented value is stored
GetTbdUrlIdleWrite(w) ==
    /\ pc[w] = "get_inc"
    /\ workers' = tmp[w] + 1
    /\ pc' = [pc EXCEPT ![w] = "get_final"]
    /\ UNCHANGED <<url_map, save, disk, fileExists, to_be_downloaded, lock,
                   crawled_urls, unique_pages, uci_subdomains, domain_count>>
    /\ tmp' = [tmp EXCEPT ![w] = 0]
    /\ UNCHANGED <<arg, restart, seedIdx>>
    /\ UNCHANGED <<ovars, hvars, svars>>

\* lines 72-74: the final summary once three workers are idle; return None
GetTbdUrlNone(w) ==
    /\ pc[w] = "get_final"
    /\ finals' = IF workers >= IdleWorkersForSummary THEN finals + 1 ELSE finals
    /\ pc' = [pc EXCEPT ![w] = "idle"]
    /\ UNCHANGED <<fvars, arg, tmp, restart, seedIdx, summaries, hvars, svars>>

(***************************************************************************)
(* Frontier.mark_url_complete                                              *)
(***************************************************************************)
\* line 86: a worker calls mark_url_complete(u)
MarkCompleteCall(w, u) ==
    /\ pc[Main] = "done"
    /\ pc[w] = "idle"
    /\ nops < MaxOps
    /\ nops' = nops + 1
    /\ disciplined' = (disciplined /\ u \in held[w])
    /\ arg' = [arg EXCEPT ![w] = u]
    /\ pc' = [pc EXCEPT ![w] = "mc_read"]
    /\ UNCHANGED <<fvars, tmp, restart, seedIdx, ovars, svars>>
    /\ UNCHANGED <<run, held, nget, nput, nins, added, marked, store0>>

\* line 87, first half of "self.crawled_urls += 1": the counter is read
MarkCompleteRead(w) ==
    /\ pc[w] = "mc_read"
    /\ tmp' = [tmp EXCEPT ![w] = crawled_urls]
    /\ pc' = [pc EXCEPT ![w] = "mc_write"]
    /\ UNCHANGED <<fvars, arg, restart, seedIdx, ovars, hvars, svars>>

\* line 87, second half: the incremented value is stored
MarkCompleteWrite(w) ==
    /\ pc[w] = "mc_write"
    /\ crawled_urls' = tmp[w] + 1
    /\ pc' = [pc EXCEPT ![w] = "mc_summary"]
    /\ UNCHANGED <<url_map, save, disk, fileExists, to_be_downloaded, lock,
                   workers, unique_pages, uci_subdomains, domain_count>>
    /\ tmp' = [tmp EXCEPT ![w] = 0]
    /\ UNCHANGED <<arg, restart, seedIdx>>
    /\ UNCHANGED <<ovars, hvars, svars>>

\* lines 88-89: print_summary every 25 urls crawled
MarkCompleteSummary(w) ==
    /\ pc[w] = "mc_summary"
    /\ summaries' = IF crawled_urls % SummaryEvery = 0
                       THEN summaries + 1 ELSE summaries
    /\ pc' = [pc EXCEPT ![w] = "mc_lock"]
    /\ UNCHANGED <<fvars, arg, tmp, restart, seedIdx, finals, hvars, svars>>

\* lines 90-95: with self.lock: self.url_map[urlhash] = (url, True)
MarkCompleteMap(w) ==
    /\ pc[w] = "mc_lock"
    /\ lock = NoOwner
    /\ lock' = w
    /\ url_map' = Put(url_map, get_urlhash(arg[w]), Rec(arg[w], TRUE))
    /\ marked' = marked \cup {get_urlhash(arg[w])}
    /\ pc' = [pc EXCEPT ![w] = "mc_save"]
    /\ UNCHANGED <<save, disk, fileExists, to_be_downloaded, workers,
                   crawled_urls, unique_pages, uci_subdomains, domain_count>>
    /\ UNCHANGED <<arg, tmp, restart, seedIdx>>
    /\ UNCHANGED <<run, nops, held, nget, nput, nins, added, disciplined, store0>>
    /\ UNCHANGED <<ovars, svars>>

\* line 96: self.save[urlhash] = (url, True)
MarkCompleteSave(w) ==
    /\ pc[w] = "mc_save"
    /\ save' = Put(save, get_urlhash(arg[w]), Rec(arg[w], TRUE))
    /\ pc' = [pc EXCEPT ![w] = "mc_sync"]
    /\ UNCHANGED <<url_map, disk, fileExists, to_be_downloaded, lock, workers,
                   crawled_urls, unique_pages, uci_subdomains, domain_count>>
    /\ UNCHANGED <<arg, tmp, restart, seedIdx>>
    /\ UNCHANGED <<ovars, hvars, svars>>

\* line 97: self.save.sync()
MarkCompleteSync(w) ==
    /\ pc[w] = "mc_sync"
    /\ disk' = save
    /\ pc' = [pc EXCEPT ![w] = "mc_stats"]
    /\ UNCHANGED <<url_map, save, fileExists, to_be_downloaded, lock, workers,
                   crawled_urls, unique_pages, uci_subdomains, domain_count>>
    /\ UNCHANGED <<arg, tmp, restart, seedIdx>>
    /\ UNCHANGED <<ovars, hvars, svars>>

\* parsed.hostname: the host in lower case, without the port
hostname(u) == LowerSeq(u.host)

\* line 101: parsed.hostname.endswith(".uci.edu")
IsUciHost(u) == Len(u.host) > 2 /\ IsSuffix(<<"uci", "edu">>, hostname(u))

\* lines 98-103: the statistics, then the lock is released
MarkCompleteStats(w) ==
    /\ pc[w] = "mc_stats"
    /\ unique_pages' = unique_pages \cup {arg[w]}
    /\ IF IsUciHost(arg[w])
          THEN /\ uci_subdomains' = uci_subdomains \cup {hostname(arg[w])}
               /\ domain_count' =
                    Put(domain_count, hostname(arg[w]),
                        IF hostname(arg[w]) \in DOMAIN domain_count
                           THEN domain_count[hostname(arg[w])] + 1 ELSE 1)
          ELSE UNCHANGED <<uci_subdomains, domain_count>>
    /\ lock' = IF lock = w THEN NoOwner ELSE lock
    /\ pc' = [pc EXCEPT ![w] = "idle"]
    /\ UNCHANGED <<url_map, save, disk, fileExists, to_be_downloaded, workers,
                   crawled_urls>>
    /\ arg' = [arg EXCEPT ![w] = NoUrl]
    /\ UNCHANGED <<tmp, restart, seedIdx>>
    /\ UNCHANGED <<ovars, hvars, svars>>

(***************************************************************************)
(* Frontier.mark_url_invalid                                               *)
(***************************************************************************)
\* line 105: a worker calls mark_url_invalid(u)
MarkInvalidCall(w, u) ==
    /\ pc[Main] = "done"
    /\ pc[w] = "idle"
    /\ nops < MaxOps
    /\ nops' = nops + 1
    /\ disciplined' = (disciplined /\ u \in held[w])
    /\ arg' = [arg EXCEPT ![w] = u]
    /\ pc' = [pc EXCEPT ![w] = "mi_lock"]
    /\ UNCHANGED <<fvars, tmp, restart, seedIdx, ovars, svars>>
    /\ UNCHANGED <<run, held, nget, nput, nins, added, marked, store0>>

\* lines 106-108: with self.lock: self.url_map[urlhash] = (url, True)
MarkInvalidMap(w) ==
    /\ pc[w] = "mi_lock"
    /\ lock = NoOwner
    /\ lock' = w
    /\ url_map' = Put(url_map, get_urlhash(arg[w]), Rec(arg[w], TRUE))
    /\ marked' = marked \cup {get_urlhash(arg[w])}
    /\ pc' = [pc EXCEPT ![w] = "mi_save"]
    /\ UNCHANGED <<save, disk, fileExists, to_be_downloaded, workers,
                   crawled_urls, unique_pages, uci_subdomains, domain_count>>
    /\ UNCHANGED <<arg, tmp, restart, seedIdx>>
    /\ UNCHANGED <<run, nops, held, nget, nput, nins, added, disciplined, store0>>
    /\ UNCHANGED <<ovars, svars>>

\* line 109: self.save[urlhash] = (url, True)
MarkInvalidSave(w) ==
    /\ pc[w] = "mi_save"
    /\ save' = Put(save, get_urlhash(arg[w]), Rec(arg[w], TRUE))
    /\ pc' = [pc EXCEPT ![w] = "mi_sync"]
    /\ UNCHANGED <<url_map, disk, fileExists, to_be_downloaded, lock, workers,
                   crawled_urls, unique_pages, uci_subdomains, domain_count>>
    /\ UNCHANGED <<arg, tmp, restart, seedIdx>>
    /\ UNCHANGED <<ovars, hvars, svars>>

\* mark_url_invalid returning without self.save.sync()
MarkInvalidNoSync(w) ==
    /\ pc[w] = "mi_sync"
    /\ lock' = IF lock = w THEN NoOwner ELSE lock
    /\ pc' = [pc EXCEPT ![w] = "idle"]
    /\ arg' = [arg EXCEPT ![w] = NoUrl]
    /\ UNCHANGED <<url_map, save, disk, fileExists, to_be_downloaded, workers,
                   crawled_urls, unique_pages, uci_subdomains, domain_count>>
    /\ UNCHANGED <<tmp, restart, seedIdx>>
    /\ UNCHANGED <<ovars, hvars, svars>>

\* line 110: self.save.sync(), then the lock is released
MarkInvalidSync(w) ==
    /\ pc[w] = "mi_sync"
    /\ disk' = save
    /\ lock' = IF lock = w THEN NoOwner ELSE lock
    /\ pc' = [pc EXCEPT ![w] = "idle"]
    /\ UNCHANGED <<url_map, save, fileExists, to_be_downloaded, workers,
                   crawled_urls, unique_pages, uci_subdomains, domain_count>>
    /\ arg' = [arg EXCEPT ![w] = NoUrl]
    /\ UNCHANGED <<tmp, restart, seedIdx>>
    /\ UNCHANGED <<ovars, hvars, svars>>

(***************************************************************************)
(* The process stops between two Frontier operations and is started again, *)
(* with either value of restart: memory is lost, the save file is kept.    *)
(***************************************************************************)
Stop ==
    /\ lock = NoOwner
    /\ \A p \in Procs : pc[p] \in {"idle", "init", "seed", "done"}
    /\ run < MaxRuns
    /\ run' = run + 1
    /\ store0' = disk
    /\ \E r \in BOOLEAN :
          /\ url_map' = EmptyMap
          /\ save' = EmptyMap
          /\ to_be_downloaded' = <<>>
          /\ workers' = 0
          /\ crawled_urls' = 0
          /\ unique_pages' = {}
          /\ uci_subdomains' = {}
          /\ domain_count' = EmptyMap
          /\ visited_hashes' = {}
          /\ visited_texts' = <<>>
          /\ all_words' = EmptyMap
          /\ ICS_subdomains' = EmptyMap
          /\ robot_parsers' = EmptyMap
          /\ crawl_delays' = EmptyMap
          /\ largest' = [url |-> "", count |-> 0]
          /\ resp' = [p \in Procs |-> NoResp]
          /\ wake' = [p \in Procs |-> 0]
          /\ links' = [p \in Procs |-> <<>>]
          /\ parser' = [p \in Procs |-> NoResp]
          /\ robots_reads' = EmptyMap
          /\ lastPass' = EmptyMap
          /\ passedExact' = EmptyMap
          /\ pc' = [p \in Procs |-> IF p = Main THEN "init" ELSE "idle"]
          /\ arg' = [p \in Procs |-> NoUrl]
          /\ tmp' = [p \in Procs |-> 0]
          /\ restart' = r
          /\ seedIdx' = 1
          /\ summaries' = 0
          /\ finals' = 0
          /\ held' = [p \in Procs |-> {}]
          /\ nget' = [u \in AllUrls |-> 0]
          /\ nput' = [u \in AllUrls |-> 0]
          /\ nins' = EmptyMap
    /\ disciplined' = TRUE
    /\ UNCHANGED <<disk, fileExists, lock, nops, added, marked, now, nscrapes>>

(***************************************************************************)
(* The Frontier under any calls by its workers.                            *)
(***************************************************************************)
Next ==
    \/ InitCheckFile
    \/ InitOpen
    \/ ParseSaveFile
    \/ InitFallback
    \/ InitSeed
    \/ \E p \in Procs :
          \/ AddUrlCheck(p)
          \/ AddUrlMap(p)
          \/ AddUrlSave(p)
          \/ AddUrlSync(p)
          \/ AddUrlPut(p)
          \/ AddUrlReturn(p)
    \/ \E w \in Workers :
          \/ \E u \in AddUrls : AddUrlCall(w, u)
          \/ GetTbdUrlCall(w)
          \/ GetTbdUrl(w)
          \/ GetTbdUrlReturn(w)
          \/ GetTbdUrlIdleRead(w)
          \/ GetTbdUrlIdleWrite(w)
          \/ GetTbdUrlNone(w)
          \/ \E u \in held[w] \cup StrayUrls : MarkCompleteCall(w, u)
          \/ MarkCompleteRead(w)
          \/ MarkCompleteWrite(w)
          \/ MarkCompleteSummary(w)
          \/ MarkCompleteMap(w)
          \/ MarkCompleteSave(w)
          \/ MarkCompleteSync(w)
          \/ MarkCompleteStats(w)
          \/ \E u \in held[w] \cup StrayUrls : MarkInvalidCall(w, u)
          \/ MarkInvalidMap(w)
          \/ MarkInvalidSave(w)
          \/ MarkInvalidSync(w)
    \/ Stop

Spec == Init /\ [][Next]_vars

(***************************************************************************)
(* The Frontier over a save file whose writes can fail.                    *)
(***************************************************************************)
\* where a thread stands before a write of self.save or self.save.sync()
\* (lines 82-83, 96-97, 109-110)
StoreSteps == {"add_save", "add_sync", "mc_save", "mc_sync", "mi_save", "mi_sync"}

\* the shelve write or sync a worker stands at raises: the exception leaves
\* the with block, which releases the lock, and the method; no line of these
\* methods catches it
StoreFails(w) ==
    /\ pc[w] \in StoreSteps
    /\ lock' = IF lock = w THEN NoOwner ELSE lock
    /\ pc' = [pc EXCEPT ![w] = "raised"]
    /\ UNCHANGED <<url_map, save, disk, fileExists, to_be_downloaded, workers,
                   crawled_urls, unique_pages, uci_subdomains, domain_count>>
    /\ UNCHANGED <<arg, tmp, restart, seedIdx>>
    /\ UNCHANGED <<ovars, hvars, svars>>

NextFail ==
    \/ Next
    \/ \E w \in Workers : StoreFails(w)

SpecFail == Init /\ [][NextFail]_vars

(***************************************************************************)
(* The end of a crawl: the Frontier is constructed and the three workers   *)
(* poll it until it is empty, and after.                                   *)
(***************************************************************************)
\* calls of get_tbd_url the three workers may make
MaxPolls == 5

\* line 66: one of the three workers calls get_tbd_url()
PollCall(w) ==
    /\ pc[Main] = "done"
    /\ pc[w] = "idle"
    /\ nops < MaxPolls
    /\ nops' = nops + 1
    /\ pc' = [pc EXCEPT ![w] = "get_lock"]
    /\ UNCHANGED <<fvars, arg, tmp, restart, seedIdx, ovars, svars>>
    /\ UNCHANGED <<run, held, nget, nput, nins, added, marked, disciplined, store0>>

NextDrain ==
    \/ InitCheckFile
    \/ InitOpen
    \/ ParseSaveFile
    \/ InitFallback
    \/ InitSeed
    \/ AddUrlCheck(Main)
    \/ AddUrlMap(Main)
    \/ AddUrlSave(Main)
    \/ AddUrlSync(Main)
    \/ AddUrlPut(Main)
    \/ AddUrlReturn(Main)
    \/ \E w \in Crawlers :
          \/ PollCall(w)
          \/ GetTbdUrl(w)
          \/ GetTbdUrlReturn(w)
          \/ GetTbdUrlIdleRead(w)
          \/ GetTbdUrlIdleWrite(w)
          \/ GetTbdUrlNone(w)

SpecDrain == Init /\ [][NextDrain]_vars

(***************************************************************************)
(* A crawl whose workers keep polling and mark every URL they receive:     *)
(* each worker calls get_tbd_url, then mark_url_complete or                *)
(* mark_url_invalid on the URL it was handed, and add_url for the links it *)
(* found.  The save file never fails and the process is not stopped.  Here *)
(* nops counts the add_url calls only.                                     *)
(***************************************************************************)
\* calls of add_url the workers may make during the crawl
MaxLinks == 1

\* lines 76-78: a worker calls add_url(u) for a link it found
AddLinkCall(w, u) ==
    /\ pc[Main] = "done"
    /\ pc[w] = "idle"
    /\ nops < MaxLinks
    /\ nops' = nops + 1
    /\ arg' = [arg EXCEPT ![w] = normalize(u)]
    /\ pc' = [pc EXCEPT ![w] = "add_lock"]
    /\ UNCHANGED <<fvars, tmp, restart, seedIdx, ovars, svars>>
    /\ UNCHANGED <<run, held, nget, nput, nins, added, marked, disciplined, store0>>

\* the URLs get_tbd_url has returned to worker w that no mark has recorded yet
Pending(w) == {u \in held[w] : get_urlhash(u) \notin marked}

\* line 66: a worker holding no unmarked URL calls get_tbd_url(), as long as
\* the queue holds a URL or fewer than three empty polls have been counted
KeepPolling(w) ==
    /\ pc[Main] = "done"
    /\ pc[w] = "idle"
    /\ Pending(w) = {}
    /\ to_be_downloaded # <<>> \/ workers < IdleWorkersForSummary
    /\ pc' = [pc EXCEPT ![w] = "get_lock"]
    /\ UNCHANGED <<fvars, arg, tmp, restart, seedIdx, ovars, hvars, svars>>

\* line 86: the worker calls mark_url_complete on a URL it was handed
MarkReceivedComplete(w) ==
    /\ pc[Main] = "done"
    /\ pc[w] = "idle"
    /\ \E u \in Pending(w) :
          /\ arg' = [arg EXCEPT ![w] = u]
          /\ pc' = [pc EXCEPT ![w] = "mc_read"]
    /\ UNCHANGED <<fvars, tmp, restart, seedIdx, ovars, hvars, svars>>

\* line 105: the worker calls mark_url_invalid on a URL it was handed
MarkReceivedInvalid(w) ==
    /\ pc[Main] = "done"
    /\ pc[w] = "idle"
    /\ \E u \in Pending(w) :
          /\ arg' = [arg EXCEPT ![w] = u]
          /\ pc' = [pc EXCEPT ![w] = "mi_lock"]
    /\ UNCHANGED <<fvars, tmp, restart, seedIdx, ovars, hvars, svars>>

\* the steps of __init__ on the main thread
MainStep ==
    \/ InitCheckFile
    \/ InitOpen
    \/ ParseSaveFile
    \/ InitFallback
    \/ InitSeed
    \/ AddUrlCheck(Main)
    \/ AddUrlMap(Main)
    \/ AddUrlSave(Main)
    \/ AddUrlSync(Main)
    \/ AddUrlPut(Main)
    \/ AddUrlReturn(Main)

\* the steps a worker takes once it has decided on a call
WorkerStep(w) ==
    \/ AddUrlCheck(w)
    \/ AddUrlMap(w)
    \/ AddUrlSave(w)
    \/ AddUrlSync(w)
    \/ AddUrlPut(w)
    \/ AddUrlReturn(w)
    \/ KeepPolling(w)
    \/ GetTbdUrl(w)
    \/ GetTbdUrlReturn(w)
    \/ GetTbdUrlIdleRead(w)
    \/ GetTbdUrlIdleWrite(w)
    \/ GetTbdUrlNone(w)
    \/ MarkReceivedComplete(w)
    \/ MarkCompleteRead(w)
    \/ MarkCompleteWrite(w)
    \/ MarkCompleteSummary(w)
    \/ MarkCompleteMap(w)
    \/ MarkCompleteSave(w)
    \/ MarkCompleteSync(w)
    \/ MarkCompleteStats(w)
    \/ MarkReceivedInvalid(w)
    \/ MarkInvalidMap(w)
    \/ MarkInvalidSave(w)
    \/ MarkInvalidSync(w)

NextCrawl ==
    \/ MainStep
    \/ \E w \in Workers :
          \/ \E u \in AddUrls : AddLinkCall(w, u)
          \/ WorkerStep(w)

\* the threads are scheduled: a thread that can take a step and stays able to
\* take it does take a step (each step of a thread moves its pc)
CrawlFairness ==
    /\ WF_pc(MainStep)
    /\ \A w \in Workers : WF_pc(WorkerStep(w))

SpecCrawl == Init /\ [][NextCrawl]_vars /\ CrawlFairness

(***************************************************************************)
(* scraper.py: pages, responses and the pure helpers.                      *)
(***************************************************************************)
\* the fewest words of a page that is not thin (line 88)
MinWords == 200
\* the largest declared Content-Length that is processed, 2 * 1024 * 1024
\* (line 67)
MaxContentLength == 2097152
\* the crawl delay when robots.txt gives none or cannot be read (lines 212, 216)
DefaultDelay == 1

STOP_WORDS == {"the", "and", "of", "to", "a", "in"}
\* the tokens of the model that re.match("^[a-zA-Z]+$", word) rejects
NonAlphabetic == {"2024", "c++"}

RECURSIVE SumOver(_, _)
SumOver(f, S) ==
    IF S = {} THEN 0
    ELSE LET x == CHOOSE y \in S : TRUE IN f[x] + SumOver(f, S \ {x})

\* len(strings) of a page whose Counter(strings) is c
WordCount(c) == SumOver(c, DOMAIN c)

TenWords ==
    {"research", "students", "faculty", "courses", "science", "computer",
     "degree", "news", "the", "2024"}

\* a page of 200 words
PageOne ==
    [bytes |-> "one", body |-> TRUE,
     words |-> [t \in TenWords |-> 20],
     hrefs |-> <<[abs |-> FALSE, bad |-> FALSE, url |-> UrlAFrag],
                 [abs |-> TRUE, bad |-> FALSE,
                  url |-> MkUrl("https", <<"offsite", "example", "com">>, 0,
                                <<>>, "", TRUE, "")],
                 [abs |-> TRUE, bad |-> FALSE,
                  url |-> MkUrl("mailto", <<>>, 0, <<"someone">>, "", FALSE, "")],
                 [abs |-> TRUE, bad |-> TRUE, url |-> UrlA]>>]
\* a page of 201 words, one more "news" than PageOne
PageTwo ==
    [bytes |-> "two", body |-> TRUE,
     words |-> [t \in TenWords |-> IF t = "news" THEN 21 ELSE 20],
     hrefs |-> <<[abs |-> TRUE, bad |-> FALSE, url |-> UrlPdf],
                 [abs |-> FALSE, bad |-> FALSE, url |-> UrlA]>>]
\* a page of three words
PageThin ==
    [bytes |-> "thin", body |-> TRUE,
     words |-> [t \in {"hello"} |-> 3],
     hrefs |-> <<>>]
\* a document without a body
PageNoBody ==
    [bytes |-> "nobody", body |-> FALSE, words |-> EmptyMap, hrefs |-> <<>>]

\* resp: the status, the declared Content-Length (-1 when the header is
\* absent) and resp.raw_response.content
MkResp(st, cl, pg) == [status |-> st, clen |-> cl, page |-> pg]

\* https://www.ics.uci.edu/
IcsRoot  == MkUrl("https", IcsHost, 0, <<>>, "", TRUE, "")
\* http://www.ics.uci.edu
IcsRootHttp == MkUrl("http", IcsHost, 0, <<>>, "", FALSE, "")

\* the (url, resp) pairs the workers pass to scraper()
Fetches ==
    {<<IcsRoot, MkResp(200, -1, PageOne)>>,
     <<IcsRootHttp, MkResp(200, 4096, PageOne)>>,
     <<UrlAFrag, MkResp(200, -1, PageTwo)>>,
     <<UrlA, MkResp(200, -1, PageThin)>>,
     <<UrlA, MkResp(301, -1, PageNoBody)>>,
     <<UrlA, MkResp(200, MaxContentLength + 1, PageOne)>>,
     <<UrlPdf, MkResp(200, -1, PageOne)>>}

\* what parser.read() can give for a host:
\*  - the retrieval raises (no connection, timeout);
\*  - the server answers 401, 403 or 5xx: read() returns without raising and
\*    the parser, holding no rules, lets nothing be fetched;
\*  - robots.txt is retrieved and parsed: the denied paths, the Crawl-delay
\*    (0 when there is none) and the sitemaps
RobotsError ==
    [ok |-> FALSE, failed |-> TRUE, denyAll |-> FALSE, deny |-> {}, delay |-> 0,
     sitemaps |-> <<>>]
RobotsUnavailable ==
    [ok |-> TRUE, failed |-> TRUE, denyAll |-> TRUE, deny |-> {}, delay |-> 0,
     sitemaps |-> <<>>]
RobotsOpen ==
    [ok |-> TRUE, failed |-> FALSE, denyAll |-> FALSE, deny |-> {}, delay |-> 0,
     sitemaps |-> <<>>]
RobotsStrict ==
    [ok |-> TRUE, failed |-> FALSE, denyAll |-> FALSE, deny |-> {<<"a">>},
     delay |-> 2, sitemaps |-> <<"sitemap.xml">>]
RobotsOutcomes == {RobotsError, RobotsUnavailable, RobotsOpen, RobotsStrict}

\* what download(sitemap_url) gives: the <loc> entries, or nothing
SitemapLocs(sm) ==
    IF sm = "sitemap.xml" THEN <<UrlA, UrlPdf>> ELSE <<>>

\* urldefrag(url)[0]
urldefrag(u) == [u EXCEPT !.frag = ""]

\* hashlib.sha256(content).hexdigest()
checksum(pg) == <<"sha256", pg.bytes>>

\* is_root_url: parsed.path in ["", "/"]
is_root_url(u) == u.path = <<>> /\ u.ext = ""

\* the dot product of two counters over their common words
Dot(c1, c2) ==
    LET common == DOMAIN c1 \cap DOMAIN c2
        prod == [x \in common |-> c1[x] * c2[x]]
    IN  SumOver(prod, common)

\* the squared norm of a counter
NormSq(c) == SumOver([x \in DOMAIN c |-> c[x] * c[x]], DOMAIN c)

\* the greatest number that divides every count of c (1 for the empty counter)
CountsDivisor(c) ==
    IF DOMAIN c = {} THEN 1
    ELSE LET m == CHOOSE v \in {c[x] : x \in DOMAIN c} :
                      \A y \in DOMAIN c : c[y] >= v
         IN  CHOOSE d \in 1..m :
                 /\ \A x \in DOMAIN c : c[x] % d = 0
                 /\ \A e \in 1..m : (\A x \in DOMAIN c : c[x] % e = 0) => e <= d

\* a counter scaled down by its common divisor: the cosine does not change
Reduced(c) == LET d == CountsDivisor(c) IN [x \in DOMAIN c |-> c[x] \div d]

\* cosine_sim(c1, c2) >= 0.9, with 0.0 for a counter of norm 0:
\* dot / (norm1 * norm2) >= 9/10, squared
CosineAtLeastThreshold(c1, c2) ==
    LET r1 == Reduced(c1)
        r2 == Reduced(c2)
    IN  /\ NormSq(r1) # 0
        /\ NormSq(r2) # 0
        /\ 100 * Dot(r1, r2) * Dot(r1, r2) >= 81 * NormSq(r1) * NormSq(r2)

\* is_near_duplicate(new_counter)
is_near_duplicate(c) ==
    \E i \in DOMAIN visited_texts : CosineAtLeastThreshold(visited_texts[i], c)

\* update_word_stats: the frequencies after the words of counter c
WordStats(c) ==
    LET kept == {t \in DOMAIN c : t \notin STOP_WORDS /\ t \notin NonAlphabetic}
    IN  [t \in DOMAIN all_words \cup kept |->
            (IF t \in DOMAIN all_words THEN all_words[t] ELSE 0)
            + (IF t \in kept THEN c[t] ELSE 0)]

\* urljoin(base_url, raw_href), then urldefrag
Join(base, h) ==
    urldefrag(IF h.abs THEN h.url
              ELSE [h.url EXCEPT !.scheme = base.scheme, !.host = base.host,
                                 !.port = base.port])

RECURSIVE ExtractFrom(_, _)
\* extract_links over the anchors hs: a bad href raises ValueError and is
\* skipped; a joined url is kept when it starts with "http"
ExtractFrom(hs, base) ==
    IF hs = <<>> THEN <<>>
    ELSE (IF ~Head(hs).bad /\ Join(base, Head(hs)).scheme \in {"http", "https"}
             THEN <<Join(base, Head(hs))>> ELSE <<>>)
         \o ExtractFrom(Tail(hs), base)

extract_links(pg, base) == ExtractFrom(pg.hrefs, base)

RECURSIVE SitemapLinks(_)
SitemapLinks(sms) ==
    IF sms = <<>> THEN <<>>
    ELSE SitemapLocs(Head(sms)) \o SitemapLinks(Tail(sms))

\* extract_next_links(url): the <loc> entries of the sitemaps robots.txt lists
extract_next_links(u) ==
    IF netloc(u) \notin DOMAIN robot_parsers THEN <<>>
    ELSE SitemapLinks(robot_parsers[netloc(u)].sitemaps)

RECURSIVE FilterValid(_)
\* [link for link in links if is_valid(link)]
FilterValid(ls) ==
    IF ls = <<>> THEN <<>>
    ELSE (IF is_valid(Head(ls)) THEN <<Head(ls)>> ELSE <<>>) \o FilterValid(Tail(ls))

(***************************************************************************)
(* scraper.scraper and obey_crawl_delay, step by step.                     *)
(***************************************************************************)
\* the Frontier and its history, which scraper.py does not touch
frontierSide == <<fvars, tmp, restart, seedIdx, ovars, hvars>>

Bump(d, k) == Put(d, k, IF k \in DOMAIN d THEN d[k] + 1 ELSE 1)

\* lines 59-68: the checks of scraper() before the politeness step
Step1Rejects(u, r) ==
    \/ (300 <= r.status /\ r.status < 400)
    \/ ~is_valid(u)
    \/ r.status # 200
    \/ (r.clen # -1 /\ r.clen > MaxContentLength)

\* scraper() calling obey_crawl_delay before the checks of lines 59-68
ScraperCallDelayFirst(w, f) ==
    /\ pc[w] = "idle"
    /\ nscrapes < MaxScrapes
    /\ nscrapes' = nscrapes + 1
    /\ arg' = [arg EXCEPT ![w] = urldefrag(f[1])]
    /\ resp' = [resp EXCEPT ![w] = f[2]]
    /\ pc' = [pc EXCEPT ![w] = "s_delay"]
    /\ UNCHANGED <<sglobals, wake, links, parser, now, robots_reads, lastPass,
                   passedExact>>
    /\ UNCHANGED frontierSide

\* lines 56-68: a worker calls scraper(url, resp)
ScraperCall(w, f) ==
    /\ pc[w] = "idle"
    /\ nscrapes < MaxScrapes
    /\ nscrapes' = nscrapes + 1
    /\ arg' = [arg EXCEPT ![w] = urldefrag(f[1])]
    /\ resp' = [resp EXCEPT ![w] = f[2]]
    /\ pc' = [pc EXCEPT ![w] = IF Step1Rejects(urldefrag(f[1]), f[2])
                                  THEN "s_ret" ELSE "s_delay"]
    /\ UNCHANGED <<sglobals, wake, links, parser, now, robots_reads, lastPass,
                   passedExact>>
    /\ UNCHANGED frontierSide

\* lines 193-201: obey_crawl_delay looks the host up: a known delay is slept,
\* the robots.txt of an unknown host is fetched when the url is a root, and
\* any other url goes on at once
ObeyCheck(w) ==
    /\ pc[w] = "s_delay"
    /\ LET n == netloc(arg[w])
       IN  IF n \in DOMAIN crawl_delays
              THEN /\ wake' = [wake EXCEPT ![w] = now + crawl_delays[n]]
                   /\ pc' = [pc EXCEPT ![w] = "s_sleep"]
                   /\ UNCHANGED <<robots_reads, lastPass>>
              ELSE IF is_root_url(arg[w]) /\ n \notin DOMAIN robot_parsers
                      THEN /\ robots_reads' = Bump(robots_reads, n)
                           /\ pc' = [pc EXCEPT ![w] = "s_robots"]
                           /\ UNCHANGED <<wake, lastPass>>
                      ELSE /\ lastPass' = Put(lastPass, n, now)
                           /\ pc' = [pc EXCEPT ![w] = "s_hash"]
                           /\ UNCHANGED <<wake, robots_reads>>
    /\ UNCHANGED <<sglobals, arg, resp, links, parser, now, nscrapes, passedExact>>
    /\ UNCHANGED frontierSide

\* lines 204-205 and 214-217: parser.read() ends; the parser is stored, or
\* the error is caught and the default delay is stored and slept
RobotsRead(w) ==
    /\ pc[w] = "s_robots"
    /\ \E o \in RobotsOutcomes :
          IF ~o.ok
             THEN /\ crawl_delays' = Put(crawl_delays, netloc(arg[w]), DefaultDelay)
                  /\ wake' = [wake EXCEPT ![w] = now + DefaultDelay]
                  /\ pc' = [pc EXCEPT ![w] = "s_sleep"]
                  /\ UNCHANGED <<robot_parsers, parser>>
             ELSE /\ robot_parsers' = Put(robot_parsers, netloc(arg[w]), o)
                  /\ parser' = [parser EXCEPT ![w] = o]
                  /\ pc' = [pc EXCEPT ![w] = "s_setdelay"]
                  /\ UNCHANGED <<crawl_delays, wake>>
    /\ UNCHANGED <<visited_hashes, visited_texts, all_words, ICS_subdomains, largest>>
    /\ UNCHANGED <<arg, resp, links, shist>>
    /\ UNCHANGED frontierSide

\* lines 206-213: the delay of robots.txt, or 1.0, is stored and slept
RobotsSetDelay(w) ==
    /\ pc[w] = "s_setdelay"
    /\ LET d == IF parser[w].delay # 0 THEN parser[w].delay ELSE DefaultDelay
       IN  /\ crawl_delays' = Put(crawl_delays, netloc(arg[w]), d)
           /\ wake' = [wake EXCEPT ![w] = now + d]
    /\ parser' = [parser EXCEPT ![w] = NoResp]
    /\ pc' = [pc EXCEPT ![w] = "s_sleep"]
    /\ UNCHANGED <<visited_hashes, visited_texts, all_words, ICS_subdomains,
                   robot_parsers, largest>>
    /\ UNCHANGED <<arg, resp, links, shist>>
    /\ UNCHANGED frontierSide

\* lines 197, 210, 213, 217: time.sleep(delay) ends; obey_crawl_delay returns
Sleep(w) ==
    /\ pc[w] = "s_sleep"
    /\ now >= wake[w]
    /\ wake' = [wake EXCEPT ![w] = 0]
    /\ lastPass' = Put(lastPass, netloc(arg[w]), now)
    /\ pc' = [pc EXCEPT ![w] = "s_hash"]
    /\ UNCHANGED <<sglobals, arg, resp, links, parser, now, nscrapes, robots_reads,
                   passedExact>>
    /\ UNCHANGED frontierSide

\* time passes
Tick ==
    /\ now < MaxTime
    /\ now' = now + 1
    /\ UNCHANGED <<sglobals, slocals, pc, arg, nscrapes, robots_reads, lastPass,
                   passedExact>>
    /\ UNCHANGED frontierSide

\* lines 72-77: the exact-duplicate test
ExactCheck(w) ==
    /\ pc[w] = "s_hash"
    /\ IF checksum(resp[w].page) \in visited_hashes
          THEN /\ pc' = [pc EXCEPT ![w] = "s_ret"]
               /\ UNCHANGED passedExact
          ELSE /\ pc' = [pc EXCEPT ![w] = "s_hashadd"]
               /\ passedExact' = Bump(passedExact, checksum(resp[w].page))
    /\ UNCHANGED <<sglobals, slocals, arg, now, nscrapes, robots_reads, lastPass>>
    /\ UNCHANGED frontierSide

\* line 78: visited_hashes.add(checksum)
ExactAdd(w) ==
    /\ pc[w] = "s_hashadd"
    /\ visited_hashes' = visited_hashes \cup {checksum(resp[w].page)}
    /\ pc' = [pc EXCEPT ![w] = "s_parse"]
    /\ UNCHANGED <<visited_texts, all_words, ICS_subdomains, robot_parsers,
                   crawl_delays, largest>>
    /\ UNCHANGED <<slocals, arg, shist>>
    /\ UNCHANGED frontierSide

\* scraper() without the thin-page test of lines 88-90
ParsePageKeepsThin(w) ==
    /\ pc[w] = "s_parse"
    /\ pc' = [pc EXCEPT ![w] =
                IF \/ ~resp[w].page.body
                   \/ is_near_duplicate(resp[w].page.words)
                   THEN "s_ret" ELSE "s_nearadd"]
    /\ UNCHANGED <<sglobals, slocals, arg, shist>>
    /\ UNCHANGED frontierSide

\* lines 82-95: no body, a thin page and a near duplicate are rejected
ParsePage(w) ==
    /\ pc[w] = "s_parse"
    /\ pc' = [pc EXCEPT ![w] =
                IF \/ ~resp[w].page.body
                   \/ WordCount(resp[w].page.words) < MinWords
                   \/ is_near_duplicate(resp[w].page.words)
                   THEN "s_ret" ELSE "s_nearadd"]
    /\ UNCHANGED <<sglobals, slocals, arg, shist>>
    /\ UNCHANGED frontierSide

\* line 96: visited_texts.append(counter)
NearAdd(w) ==
    /\ pc[w] = "s_nearadd"
    /\ visited_texts' = Append(visited_texts, resp[w].page.words)
    /\ pc' = [pc EXCEPT ![w] = "s_words"]
    /\ UNCHANGED <<visited_hashes, all_words, ICS_subdomains, robot_parsers,
                   crawl_delays, largest>>
    /\ UNCHANGED <<slocals, arg, shist>>
    /\ UNCHANGED frontierSide

\* line 98: update_word_stats(strings)
UpdateWordStats(w) ==
    /\ pc[w] = "s_words"
    /\ all_words' = WordStats(resp[w].page.words)
    /\ pc' = [pc EXCEPT ![w] = "s_track"]
    /\ UNCHANGED <<visited_hashes, visited_texts, ICS_subdomains, robot_parsers,
                   crawl_delays, largest>>
    /\ UNCHANGED <<slocals, arg, shist>>
    /\ UNCHANGED frontierSide

\* line 99: track_ics_subdomains(url): the second label of the netloc is "ics"
TrackIcs(w) ==
    /\ pc[w] = "s_track"
    /\ ICS_subdomains' =
          IF Len(arg[w].host) >= 2 /\ arg[w].host[2] = "ics"
             THEN Bump(ICS_subdomains, netloc(arg[w]))
             ELSE ICS_subdomains
    /\ pc' = [pc EXCEPT ![w] = "s_largest"]
    /\ UNCHANGED <<visited_hashes, visited_texts, all_words, robot_parsers,
                   crawl_delays, largest>>
    /\ UNCHANGED <<slocals, arg, shist>>
    /\ UNCHANGED frontierSide

\* lines 100 and 251: update_largest_page compares with the record
LargestCheck(w) ==
    /\ pc[w] = "s_largest"
    /\ pc' = [pc EXCEPT ![w] =
                IF WordCount(resp[w].page.words) > largest.count
                   THEN "s_largest_w" ELSE "s_links"]
    /\ UNCHANGED <<sglobals, slocals, arg, shist>>
    /\ UNCHANGED frontierSide

\* line 252: _largestPageWordCount = (url, word_count)
LargestWrite(w) ==
    /\ pc[w] = "s_largest_w"
    /\ largest' = [url |-> arg[w], count |-> WordCount(resp[w].page.words)]
    /\ pc' = [pc EXCEPT ![w] = "s_links"]
    /\ UNCHANGED <<visited_hashes, visited_texts, all_words, ICS_subdomains,
                   robot_parsers, crawl_delays>>
    /\ UNCHANGED <<slocals, arg, shist>>
    /\ UNCHANGED frontierSide

\* lines 102-104: the links of the page, and of the sitemaps for a root url
ExtractLinks(w) ==
    /\ pc[w] = "s_links"
    /\ links' = [links EXCEPT ![w] =
                   extract_links(resp[w].page, arg[w])
                   \o (IF is_root_url(arg[w]) THEN extract_next_links(arg[w])
                       ELSE <<>>)]
    /\ pc' = [pc EXCEPT ![w] = "s_filter"]
    /\ UNCHANGED <<sglobals, resp, wake, parser, arg, shist>>
    /\ UNCHANGED frontierSide

\* line 106: return [link for link in links if is_valid(link)]
FilterLinks(w) ==
    /\ pc[w] = "s_filter"
    /\ links' = [links EXCEPT ![w] = FilterValid(links[w])]
    /\ pc' = [pc EXCEPT ![w] = "s_ret"]
    /\ UNCHANGED <<sglobals, resp, wake, parser, arg, shist>>
    /\ UNCHANGED frontierSide

\* scraper() returns links[w] to its caller
ScraperReturn(w) ==
    /\ pc[w] = "s_ret"
    /\ pc' = [pc EXCEPT ![w] = "idle"]
    /\ arg' = [arg EXCEPT ![w] = NoUrl]
    /\ resp' = [resp EXCEPT ![w] = NoResp]
    /\ links' = [links EXCEPT ![w] = <<>>]
    /\ UNCHANGED <<sglobals, wake, parser, shist>>
    /\ UNCHANGED frontierSide

(***************************************************************************)
(* The admission pipeline under any calls by its workers.                  *)
(***************************************************************************)
InitScraper ==
    /\ ProcessStart(FALSE)
    /\ disk = EmptyMap
    /\ fileExists = FALSE
    /\ run = 1
    /\ nops = 0
    /\ now = 0
    /\ nscrapes = 0
    /\ added = {}
    /\ marked = {}
    /\ disciplined = TRUE
    /\ store0 = EmptyMap

NextScraper ==
    \/ \E w \in Workers :
          \/ \E f \in Fetches : ScraperCall(w, f)
          \/ ObeyCheck(w)
          \/ RobotsRead(w)
          \/ RobotsSetDelay(w)
          \/ Sleep(w)
          \/ ExactCheck(w)
          \/ ExactAdd(w)
          \/ ParsePage(w)
          \/ NearAdd(w)
          \/ UpdateWordStats(w)
          \/ TrackIcs(w)
          \/ LargestCheck(w)
          \/ LargestWrite(w)
          \/ ExtractLinks(w)
          \/ FilterLinks(w)
          \/ ScraperReturn(w)
    \/ Tick

SpecScraper == InitScraper /\ [][NextScraper]_vars

(***************************************************************************)
(* The scope filter over a range of URLs: scraper() is called with each    *)
(* of them, and line 62 applies is_valid to it.                            *)
(***************************************************************************)
ScopeSchemes == {"http", "https", "ftp"}
ScopeHosts ==
    {IcsHost,
     <<"ics", "uci", "edu">>,
     <<"www", "cs", "uci", "edu">>,
     <<"today", "uci", "edu">>,
     <<"today", "uci", "edu", "attacker", "com">>,
     <<"www", "ics", "uci", "edu", "attacker", "com">>,
     <<"offsite", "example", "com">>}
ScopePaths == {<<>>, <<"a">>, <<"department", "information_computer_sciences">>}
ScopeExts == {"", "pdf"}

ScopeUrls ==
    {MkUrl(s, h, 0, p, e, FALSE, "") :
        s \in ScopeSchemes, h \in ScopeHosts,
        p \in ScopePaths, e \in {x \in ScopeExts : x = ""}}
    \cup {MkUrl(s, h, 0, p, e, FALSE, "") :
        s \in ScopeSchemes, h \in ScopeHosts,
        p \in ScopePaths \ {<<>>}, e \in ScopeExts}

\* scraper(u, resp) with a 200 response of three words
ScopeCall(w, u) == ScraperCall(w, <<u, MkResp(200, -1, PageThin)>>)

NextScope ==
    \/ NextScraper
    \/ \E w \in Workers : \E u \in ScopeUrls : ScopeCall(w, u)

SpecScope == InitScraper /\ [][NextScope]_vars

(***************************************************************************)
(* Properties of the Frontier.                                             *)
(***************************************************************************)
Hashes == {get_urlhash(u) : u \in AllUrls}
Known(m, u) == get_urlhash(u) \in DOMAIN m
Visited(m, h) == h \in DOMAIN m /\ m[h].visited
NoDuplicates(q) == \A i, j \in DOMAIN q : q[i] = q[j] => i = j
\* the seeds as add_url enqueues them
SeedQueue == [i \in DOMAIN SeedUrls |-> normalize(SeedUrls[i])]
InitDone == pc[Main] # "done" /\ pc'[Main] = "done"
SameRun == run' = run

\* C1, first half: in a process run add_url inserts each fingerprint into the
\* mapping at most once, and each fingerprint is put on the queue at most once.
AddUrlAtMostOnce ==
    /\ \A h \in DOMAIN nins : nins[h] <= 1
    /\ \A u \in AllUrls : nput[u] <= 1
    /\ \A u1, u2 \in AllUrls :
          (get_urlhash(u1) = get_urlhash(u2) /\ nput[u1] > 0 /\ nput[u2] > 0)
             => u1 = u2

\* C1, second half: add_url of a fingerprint the mapping already holds, visited
\* or not, goes to its return and changes neither the mapping, the store nor
\* the queue.
AddUrlKnownIsNoOp ==
    \A p \in Procs :
        /\ (pc[p] = "add_lock" /\ pc'[p] # "add_lock" /\ SameRun
              /\ Known(url_map, arg[p]))
             => /\ pc'[p] = "add_unlock"
                /\ UNCHANGED <<url_map, save, disk, to_be_downloaded>>
        /\ (pc[p] = "add_unlock" /\ pc'[p] # "add_unlock" /\ SameRun)
             => UNCHANGED <<url_map, save, disk, to_be_downloaded>>

\* C1: add_url is idempotent and atomic under any interleaving of its callers.
C1_AddUrlIdempotent == []AddUrlAtMostOnce /\ [][AddUrlKnownIsNoOp]_vars

\* C1 witness: a worker's add_url of a URL whose fingerprint a seed already
\* inserted is about to return, the seed's one insertion and one put standing.
C1_Witness ==
    \E w \in Workers :
        /\ pc[w] = "add_unlock"
        /\ lock = w
        /\ arg[w] = UrlA
        /\ nins[get_urlhash(UrlA)] = 1
        /\ nput[UrlA] = 1

\* C2: within a run, and while the save file is not deleted by a restart, a
\* record that is visited in the mapping stays visited in the mapping, and one
\* that is visited in the store and in the save file stays visited there.
C2_VisitedMonotone ==
    [][(SameRun /\ pc[Main] # "init") =>
          \A h \in Hashes :
              /\ Visited(url_map, h) => Visited(url_map', h)
              /\ Visited(save, h) => Visited(save', h)
              /\ Visited(disk, h) => Visited(disk', h)]_vars

\* C2 witness: add_url of a fingerprint whose record is visited, in memory and
\* on disk, has run and is about to return.
C2_Witness ==
    \E w \in Workers :
        /\ pc[w] = "add_unlock"
        /\ Visited(url_map, get_urlhash(arg[w]))
        /\ Visited(disk, get_urlhash(arg[w]))

\* the URLs that were added to the store, are not marked visited and are in scope
Recoverable == {u \in added : get_urlhash(u) \notin marked /\ is_valid(u)}

\* C3: a Frontier built with restart=False over a non-empty save file left by
\* a stop between two operations has, when __init__ returns, a queue holding
\* exactly the added, unmarked, valid URLs, each once.
C3_CrashRecovery ==
    [][(InitDone /\ ~restart /\ store0 # EmptyMap) =>
          /\ Range(to_be_downloaded') = Recoverable'
          /\ NoDuplicates(to_be_downloaded')]_vars

\* C3 witness: a resumed Frontier is built over a store that holds a marked
\* record and an unvisited out-of-scope one; its queue is not empty and does
\* not hold the out-of-scope URL.
C3_Witness ==
    /\ pc[Main] = "done"
    /\ run > 1
    /\ ~restart
    /\ store0 # EmptyMap
    /\ marked # {}
    /\ to_be_downloaded # <<>>
    /\ Known(url_map, normalize(UrlPdf))
    /\ ~Visited(url_map, get_urlhash(normalize(UrlPdf)))
    /\ normalize(UrlPdf) \notin Range(to_be_downloaded)
    /\ \A w \in Workers : pc[w] = "idle" /\ held[w] = {}

\* the records __init__ replays from the store s
Replayed(s) == {s[h].url : h \in {k \in DOMAIN s : ~s[k].visited /\ is_valid(s[k].url)}}
\* the records of the seeds
SeedRecords ==
    [h \in {get_urlhash(u) : u \in Range(SeedQueue)} |->
        Rec(CHOOSE u \in Range(SeedQueue) : get_urlhash(u) = h, FALSE)]

\* C4: when __init__ returns, exactly one source has filled the queue: with
\* restart=True the old store is gone and the queue holds the seeds; with
\* restart=False and a non-empty save file the queue holds the replayed
\* records and no seed was inserted; with restart=False and an empty or
\* absent save file the queue holds the seeds.
C4_InitOneSource ==
    [][InitDone =>
          IF restart \/ store0 = EmptyMap
             THEN /\ to_be_downloaded' = SeedQueue
                  /\ url_map' = SeedRecords
                  /\ disk' = SeedRecords
             ELSE /\ Range(to_be_downloaded') = Replayed(store0)
                  /\ url_map' = store0
                  /\ disk' = store0]_vars

\* C4 witness: a resumed Frontier is built over a non-empty store that lacks
\* a seed, and the seed is not in its mapping.
C4_Witness ==
    /\ pc[Main] = "done"
    /\ ~restart
    /\ store0 # EmptyMap
    /\ url_map = store0
    /\ \E i \in DOMAIN SeedUrls : ~Known(url_map, SeedQueue[i])

\* C5: while workers mark only URLs get_tbd_url handed them, every URL in the
\* queue has a record in the mapping with visited=false.
C5_QueuedAreUnvisited ==
    disciplined =>
        \A i \in DOMAIN to_be_downloaded :
            /\ Known(url_map, to_be_downloaded[i])
            /\ ~url_map[get_urlhash(to_be_downloaded[i])].visited

\* C5 witness: a worker has marked a URL it was handed, and the queue still
\* holds another URL.
C5_Witness ==
    /\ disciplined
    /\ to_be_downloaded # <<>>
    /\ \E w \in Workers : \E u \in held[w] :
          /\ Visited(url_map, get_urlhash(u))
          /\ pc[w] = "idle"

\* the replay step of __init__ has run
Loaded == pc[Main] \notin {"init", "open", "parse"}

\* C6: whenever no operation holds the lock, the mapping, the store and the
\* flushed save file hold the same records.
C6_WriteThrough ==
    (Loaded /\ lock = NoOwner) => (url_map = save /\ save = disk)

\* C6 witness: all calls have returned, and the save file holds a record that
\* add_url wrote and a record that a mark wrote.
C6_Witness ==
    /\ pc[Main] = "done"
    /\ lock = NoOwner
    /\ \A w \in Workers : pc[w] = "idle"
    /\ \E h \in DOMAIN disk : disk[h].visited /\ h \in marked
    /\ \E h \in DOMAIN disk : ~disk[h].visited /\ disk[h].url \in added
    /\ nops >= 2

\* C7, first half: no more URLs are handed out than were put on the queue, and
\* no URL is handed to two workers.
HandedOutOnce ==
    /\ \A u \in AllUrls : nget[u] <= nput[u]
    /\ \A w1, w2 \in Workers : w1 # w2 => held[w1] \cap held[w2] = {}

\* C7, second half: get_tbd_url does not wait for the queue: with the lock free
\* it can always take its step, and the step returns the head of the queue, or
\* goes to the except clause, which returns None, when the queue is empty.
PollNeverWaits ==
    \A w \in Workers :
        /\ (pc[w] = "get_lock" /\ lock = NoOwner) => ENABLED GetTbdUrl(w)
        /\ pc[w] = "get_except" => ENABLED GetTbdUrlIdleRead(w)
        /\ pc[w] = "get_inc" => ENABLED GetTbdUrlIdleWrite(w)
        /\ pc[w] = "get_final" => ENABLED GetTbdUrlNone(w)

PollStep ==
    \A w \in Workers :
        (pc[w] = "get_lock" /\ pc'[w] # "get_lock" /\ SameRun) =>
            IF to_be_downloaded = <<>>
               THEN pc'[w] = "get_except" /\ UNCHANGED <<to_be_downloaded, held, lock>>
               ELSE /\ pc'[w] = "get_unlock"
                    /\ arg'[w] = Head(to_be_downloaded)
                    /\ to_be_downloaded' = Tail(to_be_downloaded)

\* C7: each queued URL goes to at most one get_tbd_url call, and a call on an
\* empty queue returns None without blocking.
C7_NextUrlExclusive == [](HandedOutOnce /\ PollNeverWaits) /\ [][PollStep]_vars

\* C7 witness: each of two workers was handed a URL, and a third call found
\* the queue empty and is returning None.
C7_Witness ==
    \E w1, w2 \in Workers :
        /\ w1 # w2
        /\ held[w1] # {}
        /\ held[w2] # {}
        /\ to_be_downloaded = <<>>
        /\ pc[w1] = "get_final"

(***************************************************************************)
(* Properties of the admission pipeline.                                   *)
(***************************************************************************)
\* C8: of the pages with one content hash that reach the exact-duplicate
\* check, under any interleaving of the workers, at most one gets past it.
C8_ExactDuplicateOnce ==
    \A c \in DOMAIN passedExact : passedExact[c] <= 1

\* C9, first half: the robots.txt retrieval of a host is started at most once.
RobotsReadOnce == \A n \in DOMAIN robots_reads : robots_reads[n] <= 1

\* C9, second half: no retrieval is started for a host that has a crawl delay.
NoReadOnceDelayed ==
    \A n \in DOMAIN crawl_delays :
        /\ n \in DOMAIN robots_reads => (n \in DOMAIN robots_reads'
                                         /\ robots_reads'[n] = robots_reads[n])
        /\ n \notin DOMAIN robots_reads => n \notin DOMAIN robots_reads'

\* C9: robots.txt is loaded at most once per host, under any interleaving of
\* the workers in obey_crawl_delay.
C9_RobotsLoadedOnce == []RobotsReadOnce /\ [][NoReadOnceDelayed]_vars

\* worker w leaves obey_crawl_delay in this step
PassesPoliteness(w) == pc[w] \in {"s_delay", "s_sleep"} /\ pc'[w] = "s_hash"

\* C10: a page of a host with crawl delay d leaves the politeness step no
\* sooner than d after the last page of that host did, whichever workers
\* handle the two.
C10_PolitenessSpacing ==
    [][\A w \in Workers :
          (/\ PassesPoliteness(w)
           /\ netloc(arg[w]) \in DOMAIN crawl_delays
           /\ netloc(arg[w]) \in DOMAIN lastPass)
             => now >= lastPass[netloc(arg[w])] + crawl_delays[netloc(arg[w])]]_vars

(***************************************************************************)
(* Properties of the reports.                                              *)
(***************************************************************************)
\* C11: the final summary report is produced at most once per crawl, whatever
\* the interleaving of the three workers' get_tbd_url calls.
C11_FinalSummaryOnce == finals <= 1

(***************************************************************************)
(* Properties of the admission pipeline: rejections.                       *)
(***************************************************************************)
\* the state scraper.py keeps for statistics and near-duplicate detection
statsState == <<visited_texts, all_words, ICS_subdomains, largest>>
\* the politeness state, and the waits made for it
politenessState == <<robot_parsers, crawl_delays, wake, robots_reads, lastPass>>

\* worker w calls scraper() in this step
CallsScraper(w) == pc[w] = "idle" /\ pc'[w] # "idle"

\* C12: a call of scraper() that the checks of step 1 reject goes straight to
\* its return with an empty list; the step changes neither the exact-hash
\* set, the near-duplicate corpus, the statistics nor the politeness state,
\* and no wait is made.
C12_Step1RejectionNoEffect ==
    [][\A w \in Workers :
          (CallsScraper(w) /\ Step1Rejects(arg'[w], resp'[w]))
             => /\ pc'[w] = "s_ret"
                /\ links'[w] = <<>>
                /\ UNCHANGED <<visited_hashes, passedExact, statsState,
                               politenessState, now>>]_vars

\* C12 witness: after a page was admitted and its host got a crawl delay, a
\* redirect response for a URL of that host is about to return.
C12_Witness ==
    \E w \in Workers :
        /\ pc[w] = "s_ret"
        /\ resp[w].status = 301
        /\ netloc(arg[w]) \in DOMAIN crawl_delays
        /\ visited_texts # <<>>
        /\ links[w] = <<>>

\* worker w rejects its page in this step
RejectStep(w) == pc[w] \in {"idle", "s_hash", "s_parse"} /\ pc'[w] = "s_ret"

\* where a worker is between line 96 and line 100
AcceptedAt == {"s_nearadd", "s_words", "s_track", "s_largest", "s_largest_w"}

\* the statistics or the corpus change in this step (the url of the
\* largest-page record is "" until a page is recorded)
StatsChange ==
    \/ visited_texts' # visited_texts
    \/ all_words' # all_words
    \/ ICS_subdomains' # ICS_subdomains
    \/ largest'.count # largest.count
    \/ (largest.count > 0 /\ largest'.url # largest.url)

\* C13, first half: every rejection returns an empty list and leaves the
\* word map, the subdomain counters, the largest-page record and the
\* near-duplicate corpus as they were.
RejectionContributesNothing ==
    \A w \in Workers :
        RejectStep(w) => (links'[w] = <<>> /\ UNCHANGED statsState)

\* C13, second half: a worker gets past line 95 only with a 200 response under
\* the size cap whose page has a body, the minimum word count and no near
\* duplicate in the corpus, and only such a worker changes the statistics.
OnlyAcceptedContribute ==
    /\ \A w \in Workers :
          (pc'[w] \in AcceptedAt /\ pc[w] \notin AcceptedAt)
             => /\ pc[w] = "s_parse"
                /\ resp[w].status = 200
                /\ ~(resp[w].clen # -1 /\ resp[w].clen > MaxContentLength)
                /\ resp[w].page.body
                /\ WordCount(resp[w].page.words) >= MinWords
                /\ ~is_near_duplicate(resp[w].page.words)
                /\ checksum(resp[w].page) \in visited_hashes
    /\ StatsChange
          => \E w \in Workers : pc[w] \in AcceptedAt /\ pc'[w] # pc[w]

\* C13: rejected pages contribute nothing; the statistics and the corpus
\* change only when a page is accepted.
C13_RejectedContributeNothing ==
    [][RejectionContributesNothing /\ OnlyAcceptedContribute]_vars

\* C13 witness: a near duplicate of the one admitted page is rejected, the
\* corpus still holding that page only.
C13_Witness ==
    \E w \in Workers :
        /\ pc[w] = "s_ret"
        /\ resp[w].page = PageTwo
        /\ checksum(PageTwo) \in visited_hashes
        /\ visited_texts = <<PageOne.words>>
        /\ largest.count = WordCount(PageOne.words)
        /\ links[w] = <<>>

(***************************************************************************)
(* Properties of the Frontier over a failing store.                        *)
(***************************************************************************)
\* C14: once a write or flush of the store has failed in add_url,
\* mark_url_complete or mark_url_invalid and the failure has reached the
\* caller, the mapping holds no record and no visited flag that the save file
\* does not hold.
C14_FailureKeepsConsistent ==
    (lock = NoOwner /\ \E w \in Workers : pc[w] = "raised")
       => \A h \in DOMAIN url_map : h \in DOMAIN disk /\ disk[h] = url_map[h]

(***************************************************************************)
(* Properties of the politeness step.                                      *)
(***************************************************************************)
\* C15: every page that leaves the politeness step has waited (it leaves from
\* the sleep) and leaves its host with a cached crawl delay, also when the
\* host was unknown and the url is not a domain root.
C15_PolitenessAlways ==
    [][\A w \in Workers :
          PassesPoliteness(w)
             => (pc[w] = "s_sleep" /\ netloc(arg[w]) \in DOMAIN crawl_delays')]_vars

\* the hosts whose robots.txt retrieval failed: the failure was raised, and
\* only the default delay is cached, or it was not, and the parser is cached
FailedHosts ==
    {n \in DOMAIN crawl_delays : n \notin DOMAIN robot_parsers}
       \cup {n \in DOMAIN robot_parsers : robot_parsers[n].failed}

\* the urls the workers pass to scraper()
ScrapedUrls == {urldefrag(f[1]) : f \in Fetches}

\* C16: a host whose robots.txt retrieval failed has the default crawl delay,
\* once it has one, and no url of the host is denied on robots grounds.
C16_FailedRobotsAllowAll ==
    \A n \in FailedHosts :
        /\ n \in DOMAIN crawl_delays => crawl_delays[n] = DefaultDelay
        /\ n \in DOMAIN robot_parsers =>
              \A u \in ScrapedUrls :
                  netloc(u) = n => can_fetch(robot_parsers[n], u)

(***************************************************************************)
(* Properties of the scope filter.                                         *)
(***************************************************************************)
\* the netloc ends with "today.uci.edu"
EndsWithToday(u) ==
    LET h == LowerSeq(u.host)
    IN  /\ u.port = 0
        /\ Len(h) >= 3
        /\ h[Len(h) - 2] \in EndsInToday
        /\ h[Len(h) - 1] = "uci"
        /\ h[Len(h)] = "edu"

\* in scope by suffix: an http(s) url whose host ends with an allow-listed
\* domain, whose path has no banned extension and that the cached robots
\* rules do not deny
InScopeBySuffix(u) ==
    /\ u.scheme \in {"http", "https"}
    /\ \/ EndsWithDomain(u, <<"ics", "uci", "edu">>)
       \/ EndsWithDomain(u, <<"cs", "uci", "edu">>)
       \/ EndsWithDomain(u, <<"informatics", "uci", "edu">>)
       \/ EndsWithDomain(u, <<"stat", "uci", "edu">>)
       \/ EndsWithToday(u)
    /\ ~HasBannedExt(u)
    /\ netloc(u) \in DOMAIN robot_parsers => can_fetch(robot_parsers[netloc(u)], u)

\* C17: is_valid is true only of urls that are in scope by suffix: a call of
\* scraper() with a 200 response gets past line 62 only with such a url.
C17_ScopeBySuffix ==
    [][\A w \in Workers :
          (CallsScraper(w) /\ pc'[w] = "s_delay") => InScopeBySuffix(arg'[w])]_vars

(***************************************************************************)
(* Properties of link discovery.                                           *)
(***************************************************************************)
\* C18: every url of the list scraper() is about to return satisfies
\* is_valid.
C18_ReturnedInScope ==
    \A w \in Workers :
        pc[w] = "s_ret" => \A i \in DOMAIN links[w] : is_valid(links[w][i])

(***************************************************************************)
(* Properties of the statistics.                                           *)
(***************************************************************************)
\* no worker stands between the admission of its page (line 96) and the end
\* of update_largest_page (line 100)
NoUpdatePending ==
    \A w \in Workers : pc[w] \notin {"s_words", "s_track", "s_largest", "s_largest_w"}

\* C19: once every admitted page has been through update_largest_page, the
\* largest-page record holds the greatest word count over the admitted pages.
C19_LargestWins ==
    NoUpdatePending =>
        \A i \in DOMAIN visited_texts : largest.count >= WordCount(visited_texts[i])

\* C20: every mark_url_complete call raises the completion counter by one,
\* so that the counter equals the number of calls made, whatever the
\* interleaving of the callers.
C20_CompletionsCounted ==
    [][\A w \in Workers :
          (pc[w] = "mc_write" /\ pc'[w] = "mc_summary")
             => crawled_urls' = crawled_urls + 1]_vars

(***************************************************************************)
(* No lost work within a run.                                              *)
(***************************************************************************)
\* the times URL u stands in the queue q
Occurrences(q, u) == Cardinality({i \in DOMAIN q : q[i] = u})

\* the URLs add_url has inserted and queued in this run
InsertedThisRun ==
    {u \in AllUrls : get_urlhash(u) \in DOMAIN nins /\ nput[u] > 0}

\* the workers get_tbd_url has returned u to, or is returning it to
Holders(u) ==
    {w \in Workers : u \in held[w] \/ (pc[w] = "get_unlock" /\ arg[w] = u)}

\* a URL add_url has queued is in the queue once and was never handed out, or
\* it is not in the queue and was handed out once, to one worker
QueuedOrHeld ==
    \A u \in InsertedThisRun :
        /\ Occurrences(to_be_downloaded, u) + nget[u] = 1
        /\ Cardinality(Holders(u)) = nget[u]

\* every record add_url inserted is eventually marked visited: whatever has
\* been added so far, a state comes where all of it is visited
EventuallyVisited ==
    []<>(\A h \in DOMAIN nins : Visited(url_map, h))

\* C21: no work is lost within a run: every URL add_url inserted with
\* visited=false is still in the queue or has been returned by get_tbd_url to
\* exactly one worker; and when the workers keep polling and mark every URL
\* they receive, every added URL is eventually marked visited.
C21_NoLostWork == []QueuedOrHeld /\ EventuallyVisited

\* C21 witness: one added URL waits in the queue while another, which a worker
\* received from get_tbd_url and marked, is visited.
C21_Witness ==
    /\ \E u \in InsertedThisRun : Occurrences(to_be_downloaded, u) = 1
    /\ \E u \in InsertedThisRun : \E w \in Workers :
          /\ u \in held[w]
          /\ pc[w] = "idle"
          /\ Visited(url_map, get_urlhash(u))
          /\ get_urlhash(u) \in marked

====
